---- MODULE Spec2Model ----
(***************************************************************************)
(* The "Bar" view of src/src/Bar/index.tsx: the grid generator, and the    *)
(* filter / sort / paginate pipeline with its scroll listener.             *)
(*                                                                         *)
(* Time.  A valid Date is [day, minute]: whole days since the epoch and    *)
(* the minute of that day, UTC (every instant the program builds is a      *)
(* whole minute apart from "now", whose seconds startOfDay discards).      *)
(* The largest Date, new Date(8640000000000000), is day 100000000 minute 0.*)
(* An Invalid Date (time value NaN) is the value InvalidDate.              *)
(*                                                                         *)
(* Text.  A string the user submits is a sequence of one-character         *)
(* strings, so that parsing it is a computation.                           *)
(***************************************************************************)
EXTENDS Integers, Sequences, FiniteSets, TLC

\* ------------------------------------------------------------------ bounds

\* Math.random() returns k / RandMod for a k in 0 .. RandMod-1.
RandMod == 3
\* generateGrid is explored for every rows, cols >= 1 with rows*cols <= MaxCells.
MaxCells == 3
\* Rows of the grid Bar generates (200 in the source, scaled down).
GridRows == 3
\* page is explored up to MaxPage.
MaxPage == 3
\* Render closures are told apart up to the MaxRenders-th render.
MaxRenders == 2
\* Seeds of the random stream Bar's grid is generated from.
MaxSeed == 1

\* ------------------------------------------------------- program constants

GRID_COLS == 10
PAGE_SIZE == 20
ROW_WIDTH == 10
SCROLL_THRESHOLD == 50
DAYS_RANGE == 365
MINUTES_RANGE == 1440
MAX_DATE_DAY == 100000000

MinutesPerDay == 24 * 60

\* ------------------------------------------------------------------- dates

InvalidDate == [invalid |-> TRUE]

IsValid(d) == "day" \in DOMAIN d

\* A Date from a day and a (possibly negative or overflowing) minute count.
MkDate(day, minute) ==
    [day |-> day + (minute \div MinutesPerDay), minute |-> minute % MinutesPerDay]

\* Date.prototype.getTime, in minutes.
GetTime(d) == d.day * MinutesPerDay + d.minute

\* a >= b and a <= b on Dates: a comparison of the time values, false when
\* either is NaN.
DateGE(a, b) ==
    /\ IsValid(a) /\ IsValid(b)
    /\ (a.day > b.day \/ (a.day = b.day /\ a.minute >= b.minute))

DateLE(a, b) ==
    /\ IsValid(a) /\ IsValid(b)
    /\ (a.day < b.day \/ (a.day = b.day /\ a.minute <= b.minute))

\* date-fns addDays and addMinutes (no daylight-saving change in the zone).
addDays(d, n) == [day |-> d.day + n, minute |-> d.minute]

addMinutes(d, n) == MkDate(d.day, d.minute + n)

\* date-fns startOfDay: local midnight of the instant `now`, in a zone whose
\* getTimezoneOffset() is tz minutes (UTC minus local time).
startOfDay(now, tz) ==
    LET local == MkDate(now.day, now.minute - tz)
    IN  MkDate(local.day, tz)

\* Days since the epoch of the civil date y-m-d (proleptic Gregorian).
DaysFromCivil(y, m, d) ==
    LET yy  == IF m <= 2 THEN y - 1 ELSE y
        era == yy \div 400
        yoe == yy - era * 400
        mp  == IF m > 2 THEN m - 3 ELSE m + 9
        doy == (153 * mp + 2) \div 5 + d - 1
        doe == yoe * 365 + yoe \div 4 - yoe \div 100 + doy
    IN  era * 146097 + doe - 719468

IsLeap(y) == (y % 4 = 0 /\ y % 100 # 0) \/ y % 400 = 0

DaysInMonth(y, m) ==
    IF m = 2 THEN (IF IsLeap(y) THEN 29 ELSE 28)
    ELSE IF m \in {4, 6, 9, 11} THEN 30 ELSE 31

Digits == <<"0", "1", "2", "3", "4", "5", "6", "7", "8", "9">>

IsDigit(ch) == \E i \in 1..10 : Digits[i] = ch

DigitVal(ch) == (CHOOSE i \in 1..10 : Digits[i] = ch) - 1

\* The number written by the digits text[from .. to].
RECURSIVE NumberAt(_, _, _)
NumberAt(text, from, to) ==
    IF to < from THEN 0
    ELSE 10 * NumberAt(text, from, to - 1) + DigitVal(text[to])

\* new Date(text) for a non-empty text: the date-only form YYYY-MM-DD is UTC
\* midnight of that calendar day; anything else, and a day the month does
\* not have, is an Invalid Date.
NewDateFromText(text) ==
    IF /\ Len(text) = 10
       /\ \A i \in {1, 2, 3, 4, 6, 7, 9, 10} : IsDigit(text[i])
       /\ text[5] = "-" /\ text[8] = "-"
    THEN LET y == NumberAt(text, 1, 4)
             m == NumberAt(text, 6, 7)
             d == NumberAt(text, 9, 10)
         IN  IF m \in 1..12 /\ d >= 1 /\ d <= DaysInMonth(y, m)
             THEN [day |-> DaysFromCivil(y, m, d), minute |-> 0]
             ELSE InvalidDate
    ELSE InvalidDate

\* ---------------------------------------------------------- the generator

\* Math.floor(Math.random() * n), Math.random() being x / RandMod.
RandomInt(x, n) == (x * n) \div RandMod

\* generateRandomDate, from the two values Math.random() returns.
generateRandomDate(baseDate, x1, x2) ==
    addMinutes(addDays(baseDate, RandomInt(x1, DAYS_RANGE)), RandomInt(x2, MINUTES_RANGE))

CellIdNoCol(row, col) == ToString(row)

\* The template string `${row}-${col}`.
CellId(row, col) == ToString(row) \o "-" \o ToString(col)

MkCell(baseDate, row, col, x1, x2) ==
    [id |-> CellId(row, col), timestamp |-> generateRandomDate(baseDate, x1, x2)]

\* generateGrid as a function of its arguments, the base date and the
\* sequence of values Math.random() returns, two for each cell in row order.
generateGrid(rows, cols, baseDate, draws) ==
    [r \in 1..rows |->
        [c \in 1..cols |->
            LET k == 2 * ((r - 1) * cols + (c - 1))
            IN  MkCell(baseDate, r - 1, c - 1, draws[k + 1], draws[k + 2])]]

\* Array.prototype.flat on an array of rows.
RECURSIVE Flat(_)
Flat(g) == IF g = <<>> THEN <<>> ELSE Head(g) \o Flat(Tail(g))

\* ------------------------------------------------------- the view's state

VARIABLES
    phase,          \* "rendered": first render committed, effects pending;
                    \* "gridSet": mount effects ran; "ready"; "unmounted"
    fullGrid,       \* useLargeGrid's state: the generated rows
    filteredCells,  \* useState: the filtered set
    page,           \* useState: the page
    sortAsc,        \* useState: the sort flag
    containerRef,   \* containerRef.current: "div" or "null"
    listeners,      \* the scroll listeners registered on the container
    scrollCleanup,  \* the listeners the scroll effect's cleanup removes (none
                    \* when the effect registered nothing)
    renders,        \* which render the current closures belong to
    lastEvent,      \* history: the event handled last, with its arguments
    sortHistory,    \* history: filteredCells and sortAsc before each of the
                    \* (at most two) latest sort toggles made in a row
    nearBottomCount,\* history: scroll events within the threshold of the bottom
                    \* handled since the last filter submission
    genPc, genRows, genCols, genBase, row, col, currentRow, grid, drawn
                    \* generateGrid's arguments, base date, loop variables, result
                    \* and the values Math.random() has returned

viewVars == <<phase, fullGrid, filteredCells, page, sortAsc, containerRef,
              listeners, scrollCleanup, renders, lastEvent, sortHistory,
              nearBottomCount>>

genVars == <<genPc, genRows, genCols, genBase, row, col, currentRow, grid, drawn>>

vars == <<viewVars, genVars>>

\* ------------------------------------------------------------- the inputs

\* The instants new Date() may return at mount, and the zone's offsets.
Nows == {[day |-> DaysFromCivil(2024, 1, 1), minute |-> 615]}

TzOffsets == {0 - 60, 0, 300}

\* The n-th value (n >= 1) Math.random() returns in the stream of a seed, as
\* the k of k / RandMod.
StreamValue(seed, n) == ((seed + 3) * n * n + 5 * n + (n \div 7) + seed) % RandMod

RandomStream(seed, len) == [n \in 1..len |-> StreamValue(seed, n)]

\* The texts a filter submission may carry: empty, calendar dates, a day the
\* month does not have, and text that is no date.
EmptyText == <<>>

Texts ==
    { EmptyText,
      <<"2", "0", "2", "4", "-", "0", "1", "-", "0", "1">>,
      <<"2", "0", "2", "4", "-", "0", "5", "-", "0", "1">>,
      <<"2", "0", "2", "4", "-", "0", "2", "-", "3", "0">>,
      <<"g", "a", "r", "b", "a", "g", "e">> }

\* Scroll positions: scrollTop, with clientHeight 100 and scrollHeight 300,
\* so that the distance from the bottom is 200, 51, 50, 49 and 0.
ScrollTops == {0, 149, 150, 151, 200}

ClientHeight == 50 + 50

ScrollHeight == 3 * ClientHeight

\* ------------------------------------------------------------ the view

Event(op, start, end) == [op |-> op, start |-> start, end |-> end]

NoText == <<"-">>

\* The render that follows a state change makes new closures.
NextRender == IF renders < MaxRenders THEN renders + 1 ELSE renders

\* The handleScroll closure of the given render.
handleScroll(render) == [fn |-> "handleScroll", render |-> render]

\* const flatCells = fullGrid.flat()
flatCells == Flat(fullGrid)

\* Array.prototype.slice(begin, end) for begin, end >= 0.
Slice(s, begin, end) ==
    LET n == Len(s)
        b == IF begin > n THEN n ELSE begin
        e == IF end > n THEN n ELSE end
    IN  IF e <= b THEN <<>> ELSE [i \in 1..(e - b) |-> s[b + i]]

SliceEndOfPageOnly(cells, p) == Slice(cells, (p - 1) * PAGE_SIZE, p * PAGE_SIZE)

\* filteredCells.slice(0, page * PAGE_SIZE)
SlicePage(cells, p) == Slice(cells, 0, p * PAGE_SIZE)

visibleCells == SlicePage(filteredCells, page)

\* The rows rendered: visibleCells cut into pieces of ten.
groupedRows ==
    LET n == Len(visibleCells)
        k == (n + ROW_WIDTH - 1) \div ROW_WIDTH
    IN  [i \in 1..k |-> Slice(visibleCells, (i - 1) * ROW_WIDTH, i * ROW_WIDTH)]

\* start ? new Date(start) : new Date(0)
StartDate(start) ==
    IF start # EmptyText THEN NewDateFromText(start) ELSE [day |-> 0, minute |-> 0]

\* end ? new Date(end) : new Date(8640000000000000)
EndDate(end) ==
    IF end # EmptyText THEN NewDateFromText(end) ELSE [day |-> MAX_DATE_DAY, minute |-> 0]

FilterOfFiltered(start, end) ==
    LET startDate == StartDate(start)
        endDate   == EndDate(end)
    IN  SelectSeq(filteredCells,
                  LAMBDA cell : DateGE(cell.timestamp, startDate)
                                /\ DateLE(cell.timestamp, endDate))

FilterCellsAppending(start, end) ==
    LET startDate == StartDate(start)
        endDate   == EndDate(end)
    IN  filteredCells \o SelectSeq(flatCells,
                                   LAMBDA cell : DateGE(cell.timestamp, startDate)
                                                 /\ DateLE(cell.timestamp, endDate))

\* flatCells.filter(cell => cell.timestamp >= startDate && cell.timestamp <= endDate)
FilterCells(start, end) ==
    LET startDate == StartDate(start)
        endDate   == EndDate(end)
    IN  SelectSeq(flatCells,
                  LAMBDA cell : DateGE(cell.timestamp, startDate)
                                /\ DateLE(cell.timestamp, endDate))

CompareSwapped(a, b, asc) ==
    IF asc THEN GetTime(a.timestamp) - GetTime(b.timestamp)
    ELSE GetTime(b.timestamp) - GetTime(a.timestamp)

\* The comparator handleSortToggle passes to sort.
Compare(a, b, asc) ==
    IF asc THEN GetTime(b.timestamp) - GetTime(a.timestamp)
    ELSE GetTime(a.timestamp) - GetTime(b.timestamp)

\* Array.prototype.sort with a comparator is stable: a cell comes after the
\* cells the comparator puts before it and after the cells it ties with that
\* precede it in the array.
SortWith(cells, asc) ==
    LET n == Len(cells)
        Precedes(j, i) ==
            LET c == Compare(cells[j], cells[i], asc)
            IN  c < 0 \/ (c = 0 /\ j < i)
        place == [i \in 1..n |-> 1 + Cardinality({j \in 1..n : Precedes(j, i)})] \o <<>>
        at == [k \in 1..n |-> CHOOSE i \in 1..n : place[i] = k] \o <<>>
    IN  [k \in 1..n |-> cells[at[k]]]

SortedIgnoringFlag(cells, asc) == SortWith(cells, TRUE)

\* [...filteredCells].sort(comparator)
SortedCells(cells, asc) == SortWith(cells, asc)

NearBottomStrict(scrollTop, scrollHeight, clientHeight) ==
    scrollTop + clientHeight > scrollHeight - SCROLL_THRESHOLD

\* scrollTop + clientHeight >= scrollHeight - 50
NearBottom(scrollTop, scrollHeight, clientHeight) ==
    scrollTop + clientHeight >= scrollHeight - SCROLL_THRESHOLD

\* A number: finite, or +Infinity / -Infinity (value 1 / -1).
Finite(n) == [finite |-> TRUE, value |-> n]

PosInfinity == [finite |-> FALSE, value |-> 1]

NegInfinity == [finite |-> FALSE, value |-> 0 - 1]

NumLE(a, b) ==
    IF a.finite /\ b.finite THEN a.value <= b.value
    ELSE IF a.finite THEN b = PosInfinity
    ELSE IF b.finite THEN a = NegInfinity
    ELSE a = NegInfinity \/ b = PosInfinity

\* The least (greatest) of a number and the numbers of xs.
LeastOf(xs, from) ==
    LET all == {Finite(xs[i]) : i \in 1..Len(xs)} \cup {from}
    IN  CHOOSE v \in all : \A w \in all : NumLE(v, w)

GreatestOf(xs, from) ==
    LET all == {Finite(xs[i]) : i \in 1..Len(xs)} \cup {from}
    IN  CHOOSE v \in all : \A w \in all : NumLE(w, v)

MathMinFromZero(xs) == LeastOf(xs, Finite(0))

\* Math.min(...xs): +Infinity for no argument.
MathMin(xs) == LeastOf(xs, PosInfinity)

\* Math.max(...xs): -Infinity for no argument.
MathMax(xs) == GreatestOf(xs, NegInfinity)

\* new Date(number): an Invalid Date for a number that is not finite.
NewDateFromTime(t) == IF t.finite THEN MkDate(0, t.value) ELSE InvalidDate

\* StatsSection: the count and the two dates it hands to the panels.
StatsSection(cells) ==
    LET timestamps == [i \in 1..Len(cells) |-> GetTime(cells[i].timestamp)]
    IN  [count   |-> Len(cells),
         minDate |-> NewDateFromTime(MathMin(timestamps)),
         maxDate |-> NewDateFromTime(MathMax(timestamps))]

ViewInit ==
    /\ phase = "rendered"
    /\ fullGrid = <<>>
    /\ filteredCells = <<>>
    /\ page = 1
    /\ sortAsc = TRUE
    /\ containerRef = "div"
    /\ listeners = {}
    /\ scrollCleanup = {}
    /\ renders = 1
    /\ lastEvent = Event("render", NoText, NoText)
    /\ sortHistory = <<>>
    /\ nearBottomCount = 0

\* generateGrid is not running.
GenIdle ==
    /\ genPc = "idle"
    /\ genRows = 0 /\ genCols = 0
    /\ genBase = [day |-> 0, minute |-> 0]
    /\ row = 0 /\ col = 0
    /\ currentRow = <<>> /\ grid = <<>> /\ drawn = <<>>

Init == ViewInit /\ GenIdle

\* The effects of the first render, in the order of their hooks: useLargeGrid
\* generates the grid and sets it; the [fullGrid] effect sets filteredCells to
\* the first render's flatCells; the scroll effect registers that render's
\* handleScroll on the container and keeps it for its cleanup.
MountEffects(now, tz, seed) ==
    /\ phase = "rendered"
    /\ fullGrid' = generateGrid(GridRows, GRID_COLS, startOfDay(now, tz),
                                RandomStream(seed, 2 * GridRows * GRID_COLS))
    /\ filteredCells' = flatCells
    /\ IF containerRef # "null"
       THEN /\ listeners' = listeners \cup {handleScroll(renders)}
            /\ scrollCleanup' = {handleScroll(renders)}
       ELSE UNCHANGED <<listeners, scrollCleanup>>
    /\ renders' = NextRender
    /\ phase' = "gridSet"
    /\ lastEvent' = Event("mount", NoText, NoText)
    /\ sortHistory' = <<>>
    /\ UNCHANGED <<page, sortAsc, containerRef, nearBottomCount, genVars>>

\* The [fullGrid] effect after the render that sees the generated grid.  The
\* click handlers are taken to run only after it: React runs the effects of a
\* render before the user can act on what it painted.
InstallDataset ==
    /\ phase = "gridSet"
    /\ filteredCells' = flatCells
    /\ renders' = NextRender
    /\ phase' = "ready"
    /\ lastEvent' = Event("install", NoText, NoText)
    /\ sortHistory' = <<>>
    /\ UNCHANGED <<fullGrid, page, sortAsc, containerRef, listeners, scrollCleanup,
                   nearBottomCount, genVars>>

handleFilter(start, end) ==
    /\ phase = "ready"
    /\ filteredCells' = FilterCells(start, end)
    /\ page' = 1
    /\ renders' = NextRender
    /\ lastEvent' = Event("filter", start, end)
    /\ sortHistory' = <<>>
    /\ nearBottomCount' = 0
    /\ UNCHANGED <<phase, fullGrid, sortAsc, containerRef, listeners, scrollCleanup,
                   genVars>>

handleSortToggle ==
    /\ phase = "ready"
    /\ filteredCells' = SortedCells(filteredCells, sortAsc)
    /\ sortAsc' = ~sortAsc
    /\ renders' = NextRender
    /\ lastEvent' = Event("sort", NoText, NoText)
    /\ sortHistory' = (IF sortHistory = <<>> THEN <<>>
                       ELSE <<sortHistory[Len(sortHistory)]>>)
                      \o <<[cells |-> filteredCells, asc |-> sortAsc]>>
    /\ UNCHANGED <<phase, fullGrid, page, containerRef, listeners, scrollCleanup,
                   nearBottomCount, genVars>>

\* setPage((prev) => prev + 1)
PageAfterScroll(prev) == prev + 1

RECURSIVE PageAfterScrolls(_, _)
PageAfterScrolls(prev, n) ==
    IF n = 0 THEN prev ELSE PageAfterScrolls(PageAfterScroll(prev), n - 1)

\* What one call of handleScroll does to page.
handleScrollRuns(scrollTop) ==
    /\ containerRef # "null"
    /\ NearBottom(scrollTop, ScrollHeight, ClientHeight)

\* A scroll event on the container: every registered listener is called.
ScrollEvent(scrollTop) ==
    LET near == ScrollHeight - (scrollTop + ClientHeight) <= SCROLL_THRESHOLD
        calls == IF handleScrollRuns(scrollTop) THEN Cardinality(listeners) ELSE 0
    IN  /\ near => page < MaxPage
        /\ page' = PageAfterScrolls(page, calls)
        /\ renders' = IF calls > 0 THEN NextRender ELSE renders
        /\ lastEvent' = Event(IF near THEN "scrollNear" ELSE "scrollFar", NoText, NoText)
        /\ sortHistory' = <<>>
        /\ nearBottomCount' = IF near /\ phase \in {"gridSet", "ready"}
                              THEN nearBottomCount + 1 ELSE nearBottomCount
        /\ UNCHANGED <<phase, fullGrid, filteredCells, sortAsc, containerRef,
                       listeners, scrollCleanup, genVars>>

ScrollCleanupLatest(ls) == ls \ {handleScroll(renders)}

\* return () => container.removeEventListener("scroll", handleScroll)
ScrollCleanup(ls) == ls \ scrollCleanup

\* The view is unmounted: the ref is detached and the effects' cleanups run.
Unmount ==
    /\ phase \in {"gridSet", "ready"}
    /\ phase' = "unmounted"
    /\ containerRef' = "null"
    /\ listeners' = ScrollCleanup(listeners)
    /\ scrollCleanup' = {}
    /\ lastEvent' = Event("unmount", NoText, NoText)
    /\ sortHistory' = <<>>
    /\ UNCHANGED <<fullGrid, filteredCells, page, sortAsc, renders, nearBottomCount,
                   genVars>>

Next ==
    \/ \E now \in Nows, tz \in TzOffsets, seed \in 0..MaxSeed : MountEffects(now, tz, seed)
    \/ InstallDataset
    \/ \E start \in Texts, end \in Texts : handleFilter(start, end)
    \/ handleSortToggle
    \/ \E scrollTop \in ScrollTops : ScrollEvent(scrollTop)
    \/ Unmount

Spec == Init /\ [][Next]_vars

\* ------------------------------------------------ generateGrid, step by step

GenInit ==
    /\ ViewInit
    /\ genPc = "outer"
    /\ genRows \in 1..MaxCells /\ genCols \in 1..MaxCells
    /\ genRows * genCols <= MaxCells
    /\ genBase \in {startOfDay(now, 0) : now \in Nows}
    /\ row = 0 /\ col = 0
    /\ currentRow = <<>> /\ grid = <<>> /\ drawn = <<>>

\* for (let row = 0; row < rows; row++) { const currentRow = [];
GenRowStart ==
    /\ genPc = "outer" /\ row < genRows
    /\ currentRow' = <<>>
    /\ col' = 0
    /\ genPc' = "inner"
    /\ UNCHANGED <<genRows, genCols, genBase, row, grid, drawn, viewVars>>

\* for (let col = 0; col < cols; col++) { currentRow.push({...}) }
GenCell(x1, x2) ==
    /\ genPc = "inner" /\ col < genCols
    /\ currentRow' = Append(currentRow, MkCell(genBase, row, col, x1, x2))
    /\ col' = col + 1
    /\ drawn' = drawn \o <<x1, x2>>
    /\ UNCHANGED <<genPc, genRows, genCols, genBase, row, grid, viewVars>>

\* grid.push(currentRow); }
GenRowEnd ==
    /\ genPc = "inner" /\ col >= genCols
    /\ grid' = Append(grid, currentRow)
    /\ row' = row + 1
    /\ genPc' = "outer"
    /\ UNCHANGED <<genRows, genCols, genBase, col, currentRow, drawn, viewVars>>

\* return grid;
GenReturn ==
    /\ genPc = "outer" /\ row >= genRows
    /\ genPc' = "done"
    /\ UNCHANGED <<genRows, genCols, genBase, row, col, currentRow, grid, drawn, viewVars>>

GenNext ==
    \/ GenRowStart
    \/ \E x1 \in 0..(RandMod - 1), x2 \in 0..(RandMod - 1) : GenCell(x1, x2)
    \/ GenRowEnd
    \/ GenReturn

GenSpec == GenInit /\ [][GenNext]_vars

\* ------------------------------------------------------------ properties

Range(seq) == {seq[i] : i \in 1..Len(seq)}

NoDuplicate(seq) == \A i, j \in 1..Len(seq) : i # j => seq[i] # seq[j]

\* The same records, each as many times.
SameMembers(a, b) ==
    /\ Len(a) = Len(b)
    /\ \A x \in Range(a) \cup Range(b) :
          Cardinality({i \in 1..Len(a) : a[i] = x}) = Cardinality({i \in 1..Len(b) : b[i] = x})

TimeOf(cell) == GetTime(cell.timestamp)

Ascending(seq) == \A i \in 1..(Len(seq) - 1) : TimeOf(seq[i]) <= TimeOf(seq[i + 1])

Descending(seq) == \A i \in 1..(Len(seq) - 1) : TimeOf(seq[i]) >= TimeOf(seq[i + 1])

\* Records of equal timestamp are in seq in the order they have in from.
TiesKeepOrder(seq, from) ==
    \A i, j \in 1..Len(from) :
        (i < j /\ TimeOf(from[i]) = TimeOf(from[j])) =>
            \E k, l \in 1..Len(seq) : k < l /\ seq[k] = from[i] /\ seq[l] = from[j]

Min(a, b) == IF a <= b THEN a ELSE b

Mounted == phase \in {"gridSet", "ready"}

\* A text that gives no bound as the specification reads it: empty, or not
\* the text of a calendar date.
IsDateText(text) == text # EmptyText /\ IsValid(NewDateFromText(text))

\* The records of the dataset, in generation order, whose time is within the
\* bounds; a bound that is absent bounds nothing.
Between(hasStart, startDate, hasEnd, endDate) ==
    SelectSeq(Flat(fullGrid),
              LAMBDA cell : /\ hasStart => TimeOf(cell) >= GetTime(startDate)
                            /\ hasEnd => TimeOf(cell) <= GetTime(endDate))

\* C1: filteredCells never holds a record that is not in the generated
\* dataset, holds no record twice, and once generated the dataset is never
\* changed or reordered by any step.
C1_FilteredWithinDataset ==
    /\ [](Range(filteredCells) \subseteq Range(Flat(fullGrid)) /\ NoDuplicate(filteredCells))
    /\ [][phase # "rendered" => fullGrid' = fullGrid]_vars

C1_Witness ==
    /\ lastEvent.op = "sort"
    /\ Len(filteredCells) > 1
    /\ Len(filteredCells) < Len(Flat(fullGrid))
    /\ page > 1

\* C2: after a filter submission whose bounds are each empty or a calendar
\* date, filteredCells is exactly the dataset's records within the bounds, in
\* generation order, whatever the set, the sort and the page were before; with
\* both bounds empty it is the whole dataset in generation order.
C2_FilterIsSelectionOfDataset ==
    (/\ lastEvent.op = "filter"
     /\ lastEvent.start = EmptyText \/ IsDateText(lastEvent.start)
     /\ lastEvent.end = EmptyText \/ IsDateText(lastEvent.end))
    => /\ filteredCells = Between(lastEvent.start # EmptyText, NewDateFromText(lastEvent.start),
                                  lastEvent.end # EmptyText, NewDateFromText(lastEvent.end))
       /\ (lastEvent.start = EmptyText /\ lastEvent.end = EmptyText)
             => filteredCells = Flat(fullGrid)

\* An all-empty submission made after a sort toggle gives back the whole
\* dataset in generation order, which is neither ascending nor descending.
C2_Witness ==
    /\ lastEvent = Event("filter", EmptyText, EmptyText)
    /\ ~sortAsc
    /\ filteredCells = Flat(fullGrid)
    /\ ~Descending(filteredCells) /\ ~Ascending(filteredCells)

\* C3: a bound whose text is empty or is no parseable date bounds nothing: a
\* filter submission gives what the submission with those texts empty gives.
C3_UnparseableBoundIsOpen ==
    lastEvent.op = "filter"
    => filteredCells = Between(IsDateText(lastEvent.start), NewDateFromText(lastEvent.start),
                               IsDateText(lastEvent.end), NewDateFromText(lastEvent.end))

\* C4 as stated: two sort toggles in a row give back the order filteredCells
\* had before them.
C4_TwoTogglesRestoreOrder ==
    Len(sortHistory) = 2 => filteredCells = sortHistory[1].cells

\* C4 as amended: two sort toggles in a row keep the members and the flag, and
\* leave filteredCells ordered by timestamp, ascending when sortAsc was true
\* before them and descending when it was false, records of equal timestamp in
\* the order they had; the order from before is given back exactly when
\* filteredCells was already ordered that way.
C4_TwoTogglesSort ==
    Len(sortHistory) = 2 =>
        LET before == sortHistory[1]
        IN  /\ SameMembers(filteredCells, before.cells)
            /\ sortAsc = before.asc
            /\ IF before.asc THEN Ascending(filteredCells) ELSE Descending(filteredCells)
            /\ TiesKeepOrder(filteredCells, before.cells)
            /\ (filteredCells = before.cells)
                  <=> (IF before.asc THEN Ascending(before.cells)
                       ELSE Descending(before.cells))

\* Two toggles from an ascending set of several timestamps, with ties, give
\* that very sequence back.
C4_Witness ==
    /\ Len(sortHistory) = 2
    /\ filteredCells = sortHistory[1].cells
    /\ \E i, j \in 1..Len(filteredCells) :
          i # j /\ TimeOf(filteredCells[i]) = TimeOf(filteredCells[j])
    /\ \E i, j \in 1..Len(filteredCells) :
          TimeOf(filteredCells[i]) # TimeOf(filteredCells[j])

\* C5: page is always 1 plus the number of scroll events within 50 of the
\* bottom handled since the last filter submission (since mount if none), and
\* at least 1: such an event adds exactly 1 whatever the length of
\* filteredCells, a filter submission gives 1, a sort toggle and a scroll
\* event farther from the bottom change nothing.
C5_PageCountsNearBottomScrolls ==
    /\ page = 1 + nearBottomCount
    /\ page >= 1
    /\ lastEvent.op = "filter" => page = 1

\* Three pages counted although the second already shows every record.
C5_Witness ==
    /\ lastEvent.op = "scrollNear"
    /\ phase = "ready"
    /\ page = 3
    /\ filteredCells # <<>>
    /\ (page - 1) * PAGE_SIZE >= Len(filteredCells)

\* C6: the visible slice is the prefix of filteredCells of length
\* min(page * PAGE_SIZE, Len(filteredCells)), PAGE_SIZE being 20: all of
\* filteredCells when page * PAGE_SIZE exceeds its length.
C6_VisibleIsPrefix ==
    /\ PAGE_SIZE = 20
    /\ Len(visibleCells) = Min(page * PAGE_SIZE, Len(filteredCells))
    /\ \A i \in 1..Len(visibleCells) : visibleCells[i] = filteredCells[i]
    /\ page * PAGE_SIZE > Len(filteredCells) => visibleCells = filteredCells

C6_Witness ==
    /\ page = 2
    /\ Len(filteredCells) > PAGE_SIZE
    /\ page * PAGE_SIZE > Len(filteredCells)
    /\ visibleCells = filteredCells

C8_ListenerScopedToMount ==
    /\ [](/\ Cardinality(listeners) <= 1
          /\ Mounted => (listeners = {handleScroll(1)} /\ scrollCleanup = listeners)
          /\ ~Mounted => listeners = {})
    /\ [][phase = "unmounted" => page' = page]_vars

\* A scroll near the bottom after an unmount that followed later renders.
C8_Witness ==
    /\ phase = "unmounted"
    /\ lastEvent.op = "scrollNear"
    /\ renders > 1
    /\ page > 1
    /\ listeners = {}

\* C9: generateGrid(rows, cols) returns rows rows of cols records each,
\* rows * cols records in all, with pairwise distinct ids, whatever values
\* the random source returned.
C9_GeneratedCountAndIds ==
    genPc = "done" =>
        /\ Len(grid) = genRows
        /\ \A r \in 1..Len(grid) : Len(grid[r]) = genCols
        /\ Len(Flat(grid)) = genRows * genCols
        /\ \A i, j \in 1..Len(Flat(grid)) :
              i # j => Flat(grid)[i].id # Flat(grid)[j].id

\* A full grid of several columns in which two records drew the same
\* timestamp.
C9_Witness ==
    /\ genPc = "done"
    /\ genCols > 1
    /\ genRows * genCols = MaxCells
    /\ \E i, j \in 1..Len(Flat(grid)) :
          i # j /\ Flat(grid)[i].timestamp = Flat(grid)[j].timestamp

\* The loop of generateGrid returns what the operator generateGrid gives for
\* the values drawn.
GenerateGridAgreesWithLoop ==
    genPc = "done" => grid = generateGrid(genRows, genCols, genBase, drawn)

\* C10: the view starts with sortAsc true and filteredCells in generation
\* order; a sort toggle leaves a permutation of filteredCells, descending by
\* timestamp when sortAsc was true and ascending when it was false, and flips
\* sortAsc; a filter submission and a scroll event leave sortAsc as it is.
C10_ToggleSortsAndFlips ==
    /\ [](/\ lastEvent.op \in {"render", "mount", "install"} => sortAsc
          /\ lastEvent.op \in {"render", "install"} => filteredCells = Flat(fullGrid)
          /\ lastEvent.op = "sort" =>
                LET before == sortHistory[Len(sortHistory)]
                IN  /\ SameMembers(filteredCells, before.cells)
                    /\ sortAsc = ~before.asc
                    /\ IF before.asc THEN Descending(filteredCells)
                       ELSE Ascending(filteredCells))
    /\ [][lastEvent'.op \in {"filter", "scrollNear", "scrollFar"} => sortAsc' = sortAsc]_vars

\* The first toggle after installation: descending, and not the order before.
C10_Witness ==
    /\ lastEvent.op = "sort"
    /\ Len(sortHistory) = 1
    /\ sortHistory[1].cells = Flat(fullGrid)
    /\ ~sortAsc
    /\ Descending(filteredCells)
    /\ filteredCells # sortHistory[1].cells

====
